---- MODULE Spec2Model ----
(***************************************************************************)
(* A model of the string tuner of Tamburasca/HarpsichordTuning:            *)
(*   Tuner.find       (FFTonLiveAudio.py)  temperament matching            *)
(*   Tuner.peak       (FFTonLiveAudio.py)  peak extraction                 *)
(*   ThreadedOpt.run  (multiProcess_opt.py) parallel Gauss fits            *)
(*   Tuner.harmonics  (FFTonLiveAudio.py)  fundamental search, partials    *)
(*   Tuner.animate    (FFTonLiveAudio.py)  the capture/analysis loop       *)
(*                                                                         *)
(* Frequencies that enter the matcher are represented by their pitch in    *)
(* integer cents above a1, c = 1200*log2(f/a1), so that f = a1*2^(c/1200); *)
(* spectra are functions from bin numbers 0..n-1 to integer amplitudes.    *)
(***************************************************************************)
EXTENDS Integers, Sequences, FiniteSets, TLC

VARIABLES
    mode,          \* which component the behaviour exercises
    \* ---- Tuner.find
    tuning,        \* self.tuning: name of the selected temperament
    f_cents,       \* f_measured, as cents above self.a1
    match,         \* what find returned: [tone, displaced]
    fpc,           \* "call" before find has run, "done" after
    \* ---- Tuner.peak
    spectrum,      \* the spectrum handed to peak
    nmax,          \* NMAX
    peaks,         \* what peak returned: [pos, height]
    ppc,           \* "call" before peak has run, "done" after
    \* ---- ThreadedOpt
    nbins,         \* len(self.__freq)
    xs,            \* self.__x: the peak bins, one per worker
    opc,           \* position of run()
    oidx,          \* loop index of run()
    proc,          \* state of every worker process
    fitread,       \* the bins every worker read for its fit
    pipe,          \* results flushed into the queue's pipe
    got,           \* peaks: results run() has taken off the queue
    warnings,      \* warnings logged in this round
    \* ---- FundamentalSearch / Tuner.harmonics
    scores,        \* score of every candidate's minimisation
    arrived,       \* candidates whose result has been received, in order
    best,          \* opt.best_fun / opt.best_x: the running minimum
    f_n,           \* what harmonics returned
    spc,           \* "search" while results arrive, "done" after harmonics
    \* ---- Tuner.animate
    apc,           \* position of main / animate
    stream,        \* the input stream is active
    callback_output, \* chunks appended by the capture callback
    rc,            \* self.rc
    record_seconds, \* self.record_seconds, in tenths of a second
    amp,           \* the samples of the window taken: silent or sound
    loc,           \* animate's locals: _firstplot, peakList, f_measured,
                   \* tone, displaced, displayed_text, color, and the
                   \* x-limit and text position of the lower subplot
    shown,         \* text and colour handed to the plot
    raised,        \* the exception that ended animate, if any
    fmax,          \* self.fmax, in hundreds of Hz
    ret            \* what animate returned to main's while

findVars   == <<tuning, f_cents, match, fpc>>
peakVars   == <<spectrum, nmax, peaks, ppc>>
runVars    == <<nbins, xs, opc, oidx, proc, fitread, pipe, got, warnings>>
searchVars == <<scores, arrived, best, f_n, spc>>
animVars   == <<apc, stream, callback_output, rc, record_seconds, amp, loc,
                shown, raised, fmax, ret>>
vars == <<mode, findVars, peakVars, runVars, searchVars, animVars>>

\* Python's None and a present value
None == <<>>
Some(v) == <<v>>

Abs(x) == IF x < 0 THEN -x ELSE x
Range(s) == {s[i] : i \in DOMAIN s}

(***************************************************************************)
(* Tuner.find                                                              *)
(***************************************************************************)

\* tuningtable (tuningTable.py): per temperament, the keys in declaration
\* order with their offsets in cents.  Every table has the pivot key "A".
\* Equal is declared from C in steps of 100 cents; Meantone is declared
\* from A and has the split keys D#/Eb and G#/Ab, 41 cents apart.
Key(k, v) == [key |-> k, value |-> v]
tuningtable ==
    [ Equal |->
        << Key("C", 0), Key("C#", 100), Key("D", 200), Key("D#", 300),
           Key("E", 400), Key("F", 500), Key("F#", 600), Key("G", 700),
           Key("G#", 800), Key("A", 900), Key("A#", 1000), Key("B", 1100) >>,
      Meantone |->
        << Key("A", 890), Key("Bb", 1007), Key("B", 1083), Key("C", 0),
           Key("C#", 76), Key("D", 193), Key("D#", 269), Key("Eb", 310),
           Key("E", 386), Key("F", 503), Key("F#", 579), Key("G", 697),
           Key("G#", 773), Key("Ab", 814) >> ]

Tunings == DOMAIN tuningtable

\* tuningtable[self.tuning].get(k)
TableGet(table, k) ==
    LET hits == {j \in DOMAIN table : table[j].key = k}
    IN  table[CHOOSE j \in hits : TRUE].value

\* range(-3, 6): the octave shifts find scans
ShiftFirst == -3
ShiftStop == 6
\* -60 < displaced < 60
CentBound == 60
Octave == 1200

\* tuningtable[self.tuning].get('A')
pivot == [t \in Tunings |-> TableGet(tuningtable[t], "A")]

\* displaced for octave shift i and the k-th key of temperament t
Displaced(t, f, i, k) ==
    LET offset == f - i * Octave
    IN  offset + pivot[t] - tuningtable[t][k].value

InBound(d) == -CentBound < d /\ d < CentBound

\* the keys (by declaration index) of temperament t inside the bound at
\* octave shift i
KeysInBound(t, f, i) ==
    {k \in DOMAIN tuningtable[t] : InBound(Displaced(t, f, i, k))}

Lowest(S) == CHOOSE k \in S : \A j \in S : k <= j
Highest(S) == CHOOSE k \in S : \A j \in S : k >= j

Hit(t, f, i, k) ==
    [tone |-> Some(tuningtable[t][k].key),
     displaced |-> Some(Displaced(t, f, i, k))]

\* variants of the scan: the window ending at stop, the keys of a shift
\* taken from the last declared when rev, and miss returned at the end
RECURSIVE FindScanVariant(_, _, _, _, _, _)
FindScanVariant(t, f, i, stop, rev, miss) ==
    IF i >= stop THEN miss
    ELSE LET hits == KeysInBound(t, f, i)
         IN  IF hits # {}
             THEN Hit(t, f, i, IF rev THEN Highest(hits) ELSE Lowest(hits))
             ELSE FindScanVariant(t, f, i + 1, stop, rev, miss)

\* find with the window one shift short: range(-3, 5)
find_short(t, f) ==
    FindScanVariant(t, f, ShiftFirst, ShiftStop - 1, FALSE,
                    [tone |-> None, displaced |-> None])

\* find scanning the keys of a shift from the last declared to the first
find_reversed(t, f) ==
    FindScanVariant(t, f, ShiftFirst, ShiftStop, TRUE,
                    [tone |-> None, displaced |-> None])

\* find whose fall-through returns a numeric offset with no key
find_zero(t, f) ==
    FindScanVariant(t, f, ShiftFirst, ShiftStop, FALSE,
                    [tone |-> None, displaced |-> Some(0)])

\* for i in range(-3, 6): for key, value in table.items(): the first key of
\* the first shift whose displaced is inside the bound is returned
RECURSIVE FindScan(_, _, _)
FindScan(t, f, i) ==
    IF i >= ShiftStop THEN [tone |-> None, displaced |-> None]
    ELSE LET hits == KeysInBound(t, f, i)
         IN  IF hits # {}
             THEN Hit(t, f, i, Lowest(hits))
             ELSE FindScan(t, f, i + 1)

find(t, f) == FindScan(t, f, ShiftFirst)

\* The pitches fed to find reach MaxShift octaves below and above a1.
MaxShift == 6
Pitches == (-MaxShift * Octave) .. (MaxShift * Octave + Octave)

\* values of the component groups while another component is exercised
NoMatch == [tone |-> None, displaced |-> None]
NoPeaks == [pos |-> <<>>, height |-> <<>>]
IdleFind == tuning = "Equal" /\ f_cents = 0 /\ match = NoMatch /\ fpc = "idle"
IdlePeak == spectrum = <<>> /\ nmax = 1 /\ peaks = NoPeaks /\ ppc = "idle"
IdleRun ==
    /\ nbins = 0 /\ xs = <<>> /\ opc = "idle" /\ oidx = 0 /\ proc = <<>>
    /\ fitread = <<>> /\ pipe = <<>> /\ got = <<>> /\ warnings = {}
IdleSearch ==
    scores = <<>> /\ arrived = <<>> /\ best = None /\ f_n = <<>> /\ spc = "idle"
IdleAnim ==
    /\ apc = "idle" /\ stream = FALSE /\ callback_output = <<>> /\ rc = None
    /\ record_seconds = 0 /\ amp = None /\ loc = None /\ shown = None
    /\ raised = None /\ fmax = 0 /\ ret = None

InitFind ==
    /\ mode = "find"
    /\ tuning \in Tunings
    /\ f_cents \in Pitches
    /\ match = NoMatch
    /\ fpc = "call"
    /\ IdlePeak /\ IdleRun /\ IdleSearch /\ IdleAnim

\* tone, displaced = self.find(f_measured=...)
Find ==
    /\ mode = "find"
    /\ fpc = "call"
    /\ match' = find(tuning, f_cents)
    /\ fpc' = "done"
    /\ UNCHANGED <<mode, tuning, f_cents>>
    /\ UNCHANGED <<peakVars, runVars, searchVars, animVars>>

NextFind == Find
SpecFind == InitFind /\ [][NextFind]_vars

---------------------------------------------------------------------------
(* Properties of Tuner.find *)

Table == tuningtable[tuning]
Shifts == ShiftFirst .. (ShiftStop - 1)

\* the pitch a1*2^((value - table['A'] + i*1200)/1200), in cents above a1
ExactPitch(k, i) == Table[k].value - pivot[tuning] + i * Octave

\* distance of two table values on the circle of one octave
CircDist(a, b) ==
    LET m == (a - b) % Octave IN IF 2 * m > Octave THEN Octave - m ELSE m

\* every other key of the table is more than CentBound cents away from
\* key k
Separated(table, k) ==
    \A j \in DOMAIN table :
        j # k => CircDist(table[j].value, table[k].value) > CentBound

IsKeyWithin1(m, table, k) ==
    /\ m.tone = Some(table[k].key)
    /\ m.displaced # None
    /\ Abs(m.displaced[1]) < 1

\* C3 as stated: every table entry and EVERY integer octave shift i (here
\* -MaxShift..MaxShift): find on the entry's exact pitch returns that key
\* with an offset below one cent.
C3_AnyShiftReturnsKey ==
    (mode = "find" /\ fpc = "done") =>
        \A k \in DOMAIN Table : \A i \in (-MaxShift) .. MaxShift :
            f_cents = ExactPitch(k, i) => IsKeyWithin1(match, Table, k)

\* C3 amended: for every table entry whose value is more than 60 cents
\* (modulo the octave) from every other entry's value, and every octave
\* shift i of find's window -3..5, find on the entry's exact pitch returns
\* that key with an offset below one cent.
C3_WindowShiftReturnsKey ==
    (mode = "find" /\ fpc = "done") =>
        \A k \in DOMAIN Table : \A i \in Shifts :
            (f_cents = ExactPitch(k, i) /\ Separated(Table, k))
                => IsKeyWithin1(match, Table, k)

\* find has run on the exact pitch of a separated key at the last shift of
\* the window
C3_Witness ==
    /\ mode = "find" /\ fpc = "done"
    /\ \E k \in DOMAIN Table :
          /\ f_cents = ExactPitch(k, ShiftStop - 1)
          /\ Separated(Table, k)
          /\ match.tone = Some(Table[k].key)

\* the (shift, key index) pairs whose displaced value is inside the bound
Matching ==
    {p \in Shifts \X DOMAIN Table :
        InBound(Displaced(tuning, f_cents, p[1], p[2]))}

\* p is scanned before q: lower shift, or same shift and declared earlier
Before(p, q) == p[1] < q[1] \/ (p[1] = q[1] /\ p[2] < q[2])

\* C4: find returns the first pair, in the order (shift ascending, key in
\* declaration order), whose displaced value lies strictly between -60 and
\* 60, with exactly that displaced value; no later matching pair is
\* returned.
C4_FirstMatchInScanOrder ==
    (mode = "find" /\ fpc = "done") =>
        LET M == Matching
        IN  \A p \in M :
                (\A q \in M : q # p => Before(p, q)) =>
                    /\ match.tone = Some(Table[p[2]].key)
                    /\ match.displaced
                         = Some(Displaced(tuning, f_cents, p[1], p[2]))

\* find has returned while two pairs were inside the bound
C4_Witness ==
    /\ mode = "find" /\ fpc = "done"
    /\ Cardinality(Matching) >= 2
    /\ match.tone # None

\* C5: a MatchResult is fully present or fully absent: key and offset are
\* both given or both None, and they are None when no (shift, key) pair is
\* inside the 60-cent bound.
C5_MatchFullyPresentOrAbsent ==
    (mode = "find" /\ fpc = "done") =>
        /\ (match.tone = None) <=> (match.displaced = None)
        /\ Matching = {} => match.tone = None

\* find has returned no match
C5_Witness ==
    /\ mode = "find" /\ fpc = "done"
    /\ Matching = {}
    /\ match.tone = None /\ match.displaced = None

(***************************************************************************)
(* Tuner.peak                                                              *)
(***************************************************************************)

\* signal.find_peaks(x=spectrum, distance=8., prominence=max/50,
\* width=(0, 20))
PeakDistance == 8
ProminenceDivisor == 50
\* spectra of at most MaxWidth + 1 bins are modelled: no peak of such a
\* spectrum is wider than MaxWidth bins, so width=(0, 20) rejects nothing
MaxWidth == 20

NBins(x) == Cardinality(DOMAIN x)
MaxOf(S) == CHOOSE m \in S : \A v \in S : m >= v
MinOf(S) == CHOOSE m \in S : \A v \in S : m <= v

\* _local_maxima_1d: bins l..r form a plateau with a lower sample on either
\* side; the array's first and last sample are never part of a peak
IsPlateau(x, l, r) ==
    /\ 1 <= l /\ l <= r /\ r <= NBins(x) - 2
    /\ \A i \in l .. r : x[i] = x[l]
    /\ x[l - 1] < x[l]
    /\ x[r + 1] < x[r]

\* the midpoints (left_edge + right_edge) // 2 of all plateaus
LocalMaxima(x) ==
    LET inner == 1 .. (NBins(x) - 2)
    IN  {(pr[1] + pr[2]) \div 2 :
            pr \in {q \in inner \X inner : IsPlateau(x, q[1], q[2])}}

\* order of (value, bin) tuples as Python compares them
TupleLess(a, b) == a[1] < b[1] \/ (a[1] = b[1] /\ a[2] < b[2])

\* sorted(S, reverse=True) and sorted(S) of a set of distinct tuples
RECURSIVE SortedDesc(_)
SortedDesc(S) ==
    IF S = {} THEN <<>>
    ELSE LET m == CHOOSE a \in S : \A b \in S : b = a \/ TupleLess(b, a)
         IN  <<m>> \o SortedDesc(S \ {m})

RECURSIVE SortedAsc(_)
SortedAsc(S) ==
    IF S = {} THEN <<>>
    ELSE LET m == CHOOSE a \in S : \A b \in S : b = a \/ TupleLess(a, b)
         IN  <<m>> \o SortedAsc(S \ {m})

\* _select_by_peak_distance: from the highest peak down (of equal peaks the
\* one at the higher bin first), every kept peak removes the peaks closer
\* than distance to it
RECURSIVE SelectFrom(_, _)
SelectFrom(order, keep) ==
    IF order = <<>> THEN keep
    ELSE LET j == Head(order)[2]
         IN  IF j \notin keep THEN SelectFrom(Tail(order), keep)
             ELSE SelectFrom(Tail(order),
                     {k \in keep : k = j \/ Abs(k - j) >= PeakDistance})

SelectByDistance(x, P) == SelectFrom(SortedDesc({<<x[q], q>> : q \in P}), P)

\* _peak_prominences with wlen=None: the peak's height above the higher of
\* the two minima between it and the next higher sample (or the array's end)
Prominence(x, q) ==
    LET n == NBins(x)
        higherL == {i \in 0 .. (q - 1) : x[i] > x[q]}
        higherR == {i \in (q + 1) .. (n - 1) : x[i] > x[q]}
        lo == IF higherL = {} THEN 0 ELSE MaxOf(higherL) + 1
        hi == IF higherR = {} THEN n - 1 ELSE MinOf(higherR) - 1
        left_min == MinOf({x[i] : i \in lo .. q})
        right_min == MinOf({x[i] : i \in q .. hi})
    IN  x[q] - MaxOf({left_min, right_min})

\* the set of bins find_peaks returns (as an array, in ascending order)
find_peaks(x) ==
    LET byDistance == SelectByDistance(x, LocalMaxima(x))
        top == MaxOf({x[i] : i \in DOMAIN x})
    IN  {q \in byDistance : ProminenceDivisor * Prominence(x, q) >= top}

Firsts(sq) == [i \in DOMAIN sq |-> sq[i][1]]
Seconds(sq) == [i \in DOMAIN sq |-> sq[i][2]]
\* del lst[n:]
DelFrom(sq, n) == SubSeq(sq, 1, IF Len(sq) < n THEN Len(sq) ELSE n)

\* peak without the final re-sort by frequency
peak_unsorted(x, n_max) ==
    LET found == find_peaks(x)
        kept == DelFrom(SortedDesc({<<x[q], q>> : q \in found}), n_max)
    IN  [pos |-> Seconds(kept), height |-> Firsts(kept)]

\* peak that cuts after NMAX peaks in frequency order
peak_first(x, n_max) ==
    LET found == find_peaks(x)
        kept == DelFrom(SortedAsc({<<q, x[q]>> : q \in found}), n_max)
    IN  [pos |-> Firsts(kept), height |-> Seconds(kept)]

\* Tuner.peak: (list2, list1), the bins and heights of the NMAX highest
\* peaks, by ascending bin
peak(x, n_max) ==
    LET found == find_peaks(x)
        nPeaks == Cardinality(found)
        byHeight == SortedDesc({<<x[q], q>> : q \in found})
        list1 == DelFrom(Firsts(byHeight), n_max)
        list2 == DelFrom(Seconds(byHeight), n_max)
        byBin == SortedAsc({<<list2[i], list1[i]>> : i \in DOMAIN list2})
    IN  IF nPeaks # 0
        THEN [pos |-> Firsts(byBin), height |-> Seconds(byBin)]
        ELSE [pos |-> <<>>, height |-> <<>>]

\* The spectra handed to peak have SpecLen bins; they are zero except at
\* the bins of Bumps, which carry an amplitude of Amps.  NMAX is 1 in
\* Tuner.peak and 16 in parameters.py; here it is any of 1..MaxNMAX.
SpecLen == 19
MaxNMAX == 2
Bumps == {1, 2, 5, 9, 10, 17}
Amps == {0, 1, 2, 120}
Spectra ==
    {[i \in 0 .. (SpecLen - 1) |-> IF i \in Bumps THEN h[i] ELSE 0] :
        h \in [Bumps -> Amps]}

InitPeak ==
    /\ mode = "peak"
    /\ SpecLen - 1 <= MaxWidth
    /\ spectrum \in Spectra
    /\ nmax \in 1 .. MaxNMAX
    /\ peaks = NoPeaks
    /\ ppc = "call"
    /\ IdleFind /\ IdleRun /\ IdleSearch /\ IdleAnim

\* peakPos, peakHeight = self.peak(spectrum=yfft)
Peak ==
    /\ mode = "peak"
    /\ ppc = "call"
    /\ peaks' = peak(spectrum, nmax)
    /\ ppc' = "done"
    /\ UNCHANGED <<mode, spectrum, nmax>>
    /\ UNCHANGED <<findVars, runVars, searchVars, animVars>>

NextPeak == Peak
SpecPeak == InitPeak /\ [][NextPeak]_vars

---------------------------------------------------------------------------
(* Properties of Tuner.peak *)

\* C7: peak returns at most NMAX peaks, at strictly ascending bins, each
\* height being the spectrum's amplitude at the bin it is paired with.
C7_AtMostNmaxAscending ==
    (mode = "peak" /\ ppc = "done") =>
        /\ Len(peaks.pos) <= nmax
        /\ Len(peaks.height) = Len(peaks.pos)
        /\ \A i, j \in DOMAIN peaks.pos :
               i < j => peaks.pos[i] < peaks.pos[j]
        /\ \A i \in DOMAIN peaks.pos :
               /\ peaks.pos[i] \in DOMAIN spectrum
               /\ peaks.height[i] = spectrum[peaks.pos[i]]

\* peak has returned two peaks of which the lower bin holds the higher peak
C7_Witness ==
    /\ mode = "peak" /\ ppc = "done"
    /\ Len(peaks.pos) = 2
    /\ peaks.height[1] > peaks.height[2]

\* C8: when more than NMAX peaks qualify, exactly NMAX of them are returned
\* and no discarded peak is strictly higher than a returned one; when none
\* qualifies the result is the empty list.
C8_KeepsHighest ==
    (mode = "peak" /\ ppc = "done") =>
        LET found == find_peaks(spectrum)
            kept == Range(peaks.pos)
        IN  /\ found = {} => peaks = [pos |-> <<>>, height |-> <<>>]
            /\ Cardinality(found) > nmax =>
                  /\ Len(peaks.pos) = nmax
                  /\ Cardinality(kept) = nmax
                  /\ kept \subseteq found
                  /\ \A d \in found \ kept : \A k \in kept :
                         spectrum[d] <= spectrum[k]

\* peak has discarded a peak that lies at a lower bin than a kept one
C8_Witness ==
    /\ mode = "peak" /\ ppc = "done"
    /\ Cardinality(find_peaks(spectrum)) > nmax
    /\ \E d \in find_peaks(spectrum) \ Range(peaks.pos) :
           \E k \in Range(peaks.pos) : d < k /\ spectrum[d] < spectrum[k]

(***************************************************************************)
(* ThreadedOpt (multiProcess_opt.py): one process per peak fits a Gaussian *)
(* around the peak and puts the result on a shared queue.                  *)
(***************************************************************************)

\* parameters.FIT_WINDOW = 5 * FACTOR, with FACTOR = 1
FIT_WINDOW == 5

Workers == DOMAIN xs
\* a process object that is_alive(): started and neither exited nor killed
Alive(st) == st \in {"check", "fit", "put", "flush", "exit"}

\* the guard of fitting: the window would leave the array on either side
OutOfRange(x, n) == x - FIT_WINDOW < 0 \/ x + FIT_WINDOW > n - 1
\* the guard with the upper comparison against len(freq) instead
OutOfRange_len(x, n) == x - FIT_WINDOW < 0 \/ x + FIT_WINDOW > n

\* the bins fitting reads: freq[x] and the slices [x-window : x+window]
FitBins(x) == {x} \cup ((x - FIT_WINDOW) .. (x + FIT_WINDOW - 1))

Warn(kind, w) == [kind |-> kind, id |-> w]

\* run(): for thread_id in range(num_threads): Process(...).start()
StartProcess ==
    /\ mode = "run" /\ opc = "start"
    /\ IF oidx < Len(xs)
       THEN /\ proc' = [proc EXCEPT ![oidx + 1] = "check"]
            /\ oidx' = oidx + 1
            /\ opc' = opc
       ELSE /\ opc' = "join"
            /\ oidx' = 0
            /\ proc' = proc
    /\ UNCHANGED <<mode, nbins, xs, fitread, pipe, got, warnings>>
    /\ UNCHANGED <<findVars, peakVars, searchVars, animVars>>

\* run(): for _process in processes: _process.join(timeout=.05); join
\* returns when the process has exited or when the timeout has elapsed
JoinProcess ==
    /\ mode = "run" /\ opc = "join"
    /\ IF oidx < Len(xs)
       THEN oidx' = oidx + 1 /\ opc' = opc
       ELSE opc' = "drain" /\ oidx' = 0
    /\ UNCHANGED <<mode, nbins, xs, proc, fitread, pipe, got, warnings>>
    /\ UNCHANGED <<findVars, peakVars, searchVars, animVars>>

\* run(): while not queue.empty(): rc = queue.get(); peaks.append(...);
\* then queue.close() and queue.join_thread()
Drain ==
    /\ mode = "run" /\ opc = "drain"
    /\ IF pipe # <<>>
       THEN /\ got' = Append(got, Head(pipe))
            /\ pipe' = Tail(pipe)
            /\ opc' = opc /\ oidx' = oidx
       ELSE /\ opc' = "cleanup"
            /\ oidx' = Len(xs)
            /\ UNCHANGED <<got, pipe>>
    /\ UNCHANGED <<mode, nbins, xs, proc, fitread, warnings>>
    /\ UNCHANGED <<findVars, peakVars, searchVars, animVars>>

\* cleanup that logs the warning but leaves the process running
Cleanup_keep ==
    /\ mode = "run" /\ opc = "cleanup"
    /\ IF oidx > 0
       THEN /\ warnings' = IF Alive(proc[oidx])
                           THEN warnings \cup {Warn("did not join", oidx)}
                           ELSE warnings
            /\ proc' = proc
            /\ oidx' = oidx - 1
            /\ opc' = opc
       ELSE /\ opc' = "done"
            /\ UNCHANGED <<proc, warnings, oidx>>
    /\ UNCHANGED <<mode, nbins, xs, fitread, pipe, got>>
    /\ UNCHANGED <<findVars, peakVars, searchVars, animVars>>

\* run(): while processes: _process = processes.pop(); if is_alive():
\* terminate() and warn; then return peaks
Cleanup ==
    /\ mode = "run" /\ opc = "cleanup"
    /\ IF oidx > 0
       THEN /\ IF Alive(proc[oidx])
               THEN /\ proc' = [proc EXCEPT ![oidx] = "terminated"]
                    /\ warnings' = warnings \cup {Warn("did not join", oidx)}
               ELSE UNCHANGED <<proc, warnings>>
            /\ oidx' = oidx - 1
            /\ opc' = opc
       ELSE /\ opc' = "done"
            /\ UNCHANGED <<proc, warnings, oidx>>
    /\ UNCHANGED <<mode, nbins, xs, fitread, pipe, got>>
    /\ UNCHANGED <<findVars, peakVars, searchVars, animVars>>

\* fitting, with the other guard
FitCheck_len(w) ==
    /\ mode = "run" /\ proc[w] = "check"
    /\ IF OutOfRange_len(xs[w], nbins)
       THEN /\ warnings' = warnings \cup {Warn("out of range", w)}
            /\ proc' = [proc EXCEPT ![w] = "exited"]
            /\ fitread' = fitread
       ELSE /\ fitread' = [fitread EXCEPT ![w] = FitBins(xs[w])]
            /\ proc' = [proc EXCEPT ![w] = "fit"]
            /\ warnings' = warnings
    /\ UNCHANGED <<mode, nbins, xs, opc, oidx, pipe, got>>
    /\ UNCHANGED <<findVars, peakVars, searchVars, animVars>>

\* fitting(): the range check; a peak too close to either end is
\* disregarded with a warning, otherwise guess, boundaries and the slices
\* are read from the spectrum
FitCheck(w) ==
    /\ mode = "run" /\ proc[w] = "check"
    /\ IF OutOfRange(xs[w], nbins)
       THEN /\ warnings' = warnings \cup {Warn("out of range", w)}
            /\ proc' = [proc EXCEPT ![w] = "exited"]
            /\ fitread' = fitread
       ELSE /\ fitread' = [fitread EXCEPT ![w] = FitBins(xs[w])]
            /\ proc' = [proc EXCEPT ![w] = "fit"]
            /\ warnings' = warnings
    /\ UNCHANGED <<mode, nbins, xs, opc, oidx, pipe, got>>
    /\ UNCHANGED <<findVars, peakVars, searchVars, animVars>>

\* fitting(): curve_fit returns popt, or raises RuntimeError (caught: warning
\* and return), or raises another exception, which ends the process
FitCurve(w) ==
    /\ mode = "run" /\ proc[w] = "fit"
    /\ \/ /\ proc' = [proc EXCEPT ![w] = "put"]
          /\ warnings' = warnings
       \/ /\ proc' = [proc EXCEPT ![w] = "exited"]
          /\ warnings' = warnings \cup {Warn("fit failure", w)}
       \/ /\ proc' = [proc EXCEPT ![w] = "exited"]
          /\ warnings' = warnings
    /\ UNCHANGED <<mode, nbins, xs, opc, oidx, fitread, pipe, got>>
    /\ UNCHANGED <<findVars, peakVars, searchVars, animVars>>

\* fitting(): queue.put(popt_ind) hands the result to the queue's feeder
\* thread and fitting returns
QueuePut(w) ==
    /\ mode = "run" /\ proc[w] = "put"
    /\ proc' = [proc EXCEPT ![w] = "flush"]
    /\ UNCHANGED <<mode, nbins, xs, opc, oidx, fitread, pipe, got, warnings>>
    /\ UNCHANGED <<findVars, peakVars, searchVars, animVars>>

\* the feeder thread of the exiting process writes the result into the pipe
QueueFlush_twice(w) ==
    /\ mode = "run" /\ proc[w] = "flush"
    /\ pipe' = Append(Append(pipe, w), w)
    /\ proc' = [proc EXCEPT ![w] = "exit"]
    /\ UNCHANGED <<mode, nbins, xs, opc, oidx, fitread, got, warnings>>
    /\ UNCHANGED <<findVars, peakVars, searchVars, animVars>>
QueueFlush(w) ==
    /\ mode = "run" /\ proc[w] = "flush"
    /\ pipe' = Append(pipe, w)
    /\ proc' = [proc EXCEPT ![w] = "exit"]
    /\ UNCHANGED <<mode, nbins, xs, opc, oidx, fitread, got, warnings>>
    /\ UNCHANGED <<findVars, peakVars, searchVars, animVars>>

\* the process exits once its queue is flushed
ProcessExit(w) ==
    /\ mode = "run" /\ proc[w] = "exit"
    /\ proc' = [proc EXCEPT ![w] = "exited"]
    /\ UNCHANGED <<mode, nbins, xs, opc, oidx, fitread, pipe, got, warnings>>
    /\ UNCHANGED <<findVars, peakVars, searchVars, animVars>>

\* A round has up to MaxPeaks peaks in a spectrum of NBinsRun bins; the
\* peaks lie at ascending bins next to either limit of the fit range.
MaxPeaks == 3
NBinsRun == 12
PeakBins ==
    {FIT_WINDOW - 1, FIT_WINDOW,
     NBinsRun - 1 - FIT_WINDOW, NBinsRun - FIT_WINDOW}
PeakLists ==
    UNION {{sq \in [1 .. n -> PeakBins] :
               \A i, j \in 1 .. n : i < j => sq[i] < sq[j]} :
           n \in 0 .. MaxPeaks}

InitRun ==
    /\ mode = "run"
    /\ nbins = NBinsRun
    /\ xs \in PeakLists
    /\ opc = "start" /\ oidx = 0
    /\ proc = [w \in DOMAIN xs |-> "unborn"]
    /\ fitread = [w \in DOMAIN xs |-> {}]
    /\ pipe = <<>> /\ got = <<>> /\ warnings = {}
    /\ IdleFind /\ IdlePeak /\ IdleSearch /\ IdleAnim

Orchestrator == StartProcess \/ JoinProcess \/ Drain \/ Cleanup
FitProcess(w) ==
    FitCheck(w) \/ FitCurve(w) \/ QueuePut(w) \/ QueueFlush(w)
        \/ ProcessExit(w)

NextRun == Orchestrator \/ \E w \in Workers : FitProcess(w)
SpecRun == InitRun /\ [][NextRun]_vars
\* the main process keeps running: join and get cannot block for ever
LiveRun == SpecRun /\ WF_vars(Orchestrator)

---------------------------------------------------------------------------
(* Properties of ThreadedOpt *)

Gone(st) == st \in {"exited", "terminated"}

\* C2: run always returns, and when it has returned every worker process
\* has exited by itself or has been terminated.
C2_RunReturnsNoneLeftRunning ==
    /\ <>(mode = "run" /\ opc = "done")
    /\ [](opc = "done" => \A w \in Workers : Gone(proc[w]))

\* run has returned after one worker exited by itself and another had to
\* be terminated
C2_Witness ==
    /\ mode = "run" /\ opc = "done"
    /\ \E v, w \in Workers : proc[v] = "exited" /\ proc[w] = "terminated"

\* worker w has produced a result (on its way to, in, or taken off the queue)
HasResult(w) ==
    \/ proc[w] \in {"put", "flush"}
    \/ \E i \in DOMAIN pipe : pipe[i] = w
    \/ \E i \in DOMAIN got : got[i] = w

\* C9: a peak with a result has its whole fit window inside the spectrum,
\* every bin read for a fit is a bin of the spectrum, and a peak whose
\* window leaves the spectrum is never fit: its worker reads nothing, has no
\* result and returns with a warning.
C9_FitWindowInsideSpectrum ==
    mode = "run" =>
        \A w \in Workers :
            /\ fitread[w] \subseteq 0 .. (nbins - 1)
            /\ HasResult(w) =>
                   /\ 0 <= xs[w] - FIT_WINDOW
                   /\ xs[w] + FIT_WINDOW <= nbins - 1
            /\ (xs[w] - FIT_WINDOW < 0 \/ xs[w] + FIT_WINDOW > nbins - 1)
                 => /\ fitread[w] = {}
                    /\ ~HasResult(w)
                    /\ proc[w] \in {"unborn", "check", "exited", "terminated"}
                    /\ proc[w] = "exited"
                          => Warn("out of range", w) \in warnings

\* one peak was discarded for its window and another, at the last bin
\* whose window fits, has its result on the queue
C9_Witness ==
    /\ mode = "run"
    /\ \E v, w \in Workers :
          /\ Warn("out of range", v) \in warnings
          /\ xs[w] + FIT_WINDOW = nbins - 1
          /\ \E i \in DOMAIN pipe : pipe[i] = w

\* peak w has an entry in the list run returns
Returned(w) == \E i \in DOMAIN got : got[i] = w

\* a warning was logged for peak w
Warned(w) ==
    \E kind \in {"out of range", "fit failure", "did not join"} :
        Warn(kind, w) \in warnings

\* C15: when run has returned, every input peak without an entry in the
\* returned list has a warning logged for it (window out of range, fit
\* failure, or process did not join).
C15_DroppedPeakIsWarned ==
    (mode = "run" /\ opc = "done") =>
        \A w \in Workers : ~Returned(w) => Warned(w)

\* how many results of worker w are in the queue or taken off it
Results(w) ==
    Cardinality({i \in DOMAIN pipe : pipe[i] = w})
    + Cardinality({i \in DOMAIN got : got[i] = w})

\* C16: once the start loop is done one worker has been started per input
\* peak; every worker puts at most one result on the queue; and the list
\* run collects never has more entries than there are input peaks nor the
\* result of one worker twice.
C16_OneResultPerWorker ==
    mode = "run" =>
        /\ opc # "start" => \A w \in Workers : proc[w] # "unborn"
        /\ \A w \in Workers : Results(w) <= 1
        /\ Len(got) <= Len(xs)
        /\ \A i, j \in DOMAIN got : got[i] = got[j] => i = j

\* run has returned two results for three input peaks
C16_Witness ==
    /\ mode = "run" /\ opc = "done"
    /\ Len(xs) = 3 /\ Len(got) = 2

\* C17: the bins handed to a fit contain the peak's bin x and FIT_WINDOW
\* bins on the lower side of x and FIT_WINDOW bins on the upper side.
C17_SymmetricFitWindow ==
    mode = "run" =>
        \A w \in Workers :
            fitread[w] # {} =>
                /\ xs[w] \in fitread[w]
                /\ Cardinality({b \in fitread[w] : b < xs[w]}) = FIT_WINDOW
                /\ Cardinality({b \in fitread[w] : b > xs[w]}) = FIT_WINDOW

(***************************************************************************)
(* FundamentalSearch (threaded_opt, described in the design) and           *)
(* Tuner.harmonics.  One minimisation per candidate runs in a process of   *)
(* its own; the results are received in the order of completion and the    *)
(* one with the lowest score is kept in best_fun / best_x.                 *)
(*                                                                         *)
(* Frequencies are integers (Hz), the inharmonicity B is counted in        *)
(* thousandths, and the partials are computed in fixed point with three    *)
(* decimals of the square root.                                            *)
(***************************************************************************)

\* parameters.NPARTIAL
NPARTIAL == 11
\* for n in range(1, 9)
PartialStop == 9

\* floor of the square root of v, for 1 <= v/10^6 < 1.21
ISqrt(v) == CHOOSE r \in 1000 .. 1100 : r * r <= v /\ v < (r + 1) * (r + 1)

\* f1 * n * sqrt(1 + B * n**2), B in thousandths
Partial(f1, b, n) == (f1 * n * ISqrt(1000000 + 1000 * b * n * n)) \div 1000

\* the min-reduction keeping the result received last
Reduce_last(cur, res) == Some(res)

\* the min-reduction: a result replaces the best so far when its score is
\* strictly lower, so that of equal scores the one received first stays
Reduce(cur, res) ==
    IF cur = None \/ res.fun < cur[1].fun THEN Some(res) ELSE cur

\* the result of candidate c's minimisation
Result(c) == [fun |-> scores[c].fun, x |-> <<scores[c].f1, scores[c].B>>]

\* the strongest peak's frequency f0; the candidates are f0, f0/2, f0/3, ...
F0 == 440
MaxCandidates == 3
ScoreVals == {-3, -2, -1}
Candidates == 1 .. MaxCandidates

Inharm == {0, 1}

InitSearch ==
    /\ mode = "search"
    /\ scores \in
         {[c \in Candidates |-> [fun |-> sf[c], f1 |-> F0 \div c, B |-> bf[c]]] :
             sf \in [Candidates -> ScoreVals], bf \in [Candidates -> Inharm]}
    /\ arrived = <<>>
    /\ best = None
    /\ f_n = <<>>
    /\ spc = "search"
    /\ IdleFind /\ IdlePeak /\ IdleRun /\ IdleAnim

\* opt.run(): the result of candidate c is received and reduced
Receive(c) ==
    /\ mode = "search" /\ spc = "search"
    /\ c \notin Range(arrived)
    /\ arrived' = Append(arrived, c)
    /\ best' = Reduce(best, Result(c))
    /\ UNCHANGED <<mode, scores, f_n, spc>>
    /\ UNCHANGED <<findVars, peakVars, runVars, animVars>>

\* harmonics(): after opt.run(), f_n is built from opt.best_x for
\* n in range(1, 9)
Harmonics ==
    /\ mode = "search" /\ spc = "search"
    /\ Len(arrived) = MaxCandidates
    /\ f_n' = [n \in 1 .. (PartialStop - 1) |->
                  Partial(best[1].x[1], best[1].x[2], n)]
    /\ spc' = "done"
    /\ UNCHANGED <<mode, scores, arrived, best>>
    /\ UNCHANGED <<findVars, peakVars, runVars, animVars>>

NextSearch == Harmonics \/ \E c \in Candidates : Receive(c)
SpecSearch == InitSearch /\ [][NextSearch]_vars

---------------------------------------------------------------------------
(* Properties of the fundamental search *)

LowestScore == MinOf({scores[c].fun : c \in Candidates})
Winners == {c \in Candidates : scores[c].fun = LowestScore}

\* C1: once all results are in, the kept FitResult has the lowest score of
\* all candidates, whatever the order of arrival; its (f1, B) is that of a
\* candidate with the lowest score, hence of THE candidate with the lowest
\* score unless two candidates tie for it.
C1_LowestScoreAnyOrder ==
    (mode = "search" /\ Len(arrived) = MaxCandidates) =>
        /\ best # None
        /\ best[1].fun = LowestScore
        /\ \E c \in Winners : best[1] = Result(c)
        /\ \A c \in Winners : Winners = {c} => best[1] = Result(c)

\* all results are in and the single candidate with the lowest score was
\* neither the first nor the last to arrive
C1_Witness ==
    /\ mode = "search" /\ Len(arrived) = MaxCandidates
    /\ \E c \in Candidates :
          /\ Winners = {c}
          /\ arrived[1] # c /\ arrived[MaxCandidates] # c
          /\ best = Some(Result(c))

\* C10 as stated: the series has one entry for every n = 1..NPARTIAL, in
\* ascending n, and entry n is f1*n*sqrt(1 + B*n^2) of the winner's (f1, B).
C10_SeriesHasNPARTIALEntries ==
    (mode = "search" /\ spc = "done") =>
        /\ DOMAIN f_n = 1 .. NPARTIAL
        /\ \A n \in 1 .. NPARTIAL :
               n \in DOMAIN f_n
                 => f_n[n] = Partial(best[1].x[1], best[1].x[2], n)

(***************************************************************************)
(* Tuner.animate and main: the capture / analysis / plot loop, the capture *)
(* callback and the hotkeys.                                               *)
(***************************************************************************)

\* self.record_seconds = 2., counted in tenths of a second
InitRecord == 20
\* self.fmax = 2000., counted in hundreds of Hz; on_press keeps it within
\* 500 .. 10000 in steps of 100
InitFmax == 20
FmaxLow == 5
FmaxHigh == 100
\* how far the model lets ctrl-n / ctrl-m move fmax, and ctrl-j / ctrl-k
\* move record_seconds, from their initial values
MaxFmaxSteps == 1
MaxRecordSteps == 1
\* NMAX = 1 in Tuner.peak
NMAX == 1

\* the text handed to the plot: not yet assigned, " ", or key and offset
Unbound == [kind |-> "unbound", tone |-> None, displaced |-> None,
            color |-> "unbound"]
Blank == [kind |-> "blank", tone |-> None, displaced |-> None,
          color |-> "none"]
KeyText(tone, displaced) ==
    [kind |-> "key", tone |-> tone, displaced |-> displaced,
     color |-> IF displaced[1] >= 0 THEN "green" ELSE "red"]

\* the locals of a fresh call of animate; xlim and text_x are the x-limit
\* of the lower subplot and the position of its text as set in the current
\* iteration of the loop (None until the iteration has set them)
FreshLocals ==
    [firstplot |-> TRUE, peakList |-> <<>>, f_measured |-> None,
     tone |-> None, displaced |-> None, text |-> Unbound,
     xlim |-> None, text_x |-> None]

\* the spectrum of an all-zero window, and spectra of windows with sound:
\* one peak, two peaks, and a ramp that has its maximum at the last bin
ZeroSpectrum == [i \in 0 .. (SpecLen - 1) |-> 0]
OnePeak == [i \in 0 .. (SpecLen - 1) |-> IF i = 9 THEN 120 ELSE 0]
TwoPeaks ==
    [i \in 0 .. (SpecLen - 1) |-> IF i = 9 THEN 2 ELSE IF i = 17 THEN 3 ELSE 0]
Ramp == [i \in 0 .. (SpecLen - 1) |-> i]
SoundSpectra == {OnePeak, TwoPeaks, Ramp}

\* fft(): an all-zero window has an all-zero spectrum
fft(a) == IF a = Some("silent") THEN {ZeroSpectrum} ELSE SoundSpectra

\* the fundamentals the search may return, in cents above a1: on a key,
\* between two keys, and outside every octave find scans
AnimPitches == {0, 55, -45, ShiftStop * Octave + 600}

\* a frequency a1*2^(c/1200) is never 0.0
Truthy(f) == TRUE

\* the chunks a callback may deliver, and how many the model buffers
ChunkKinds == {"silent", "sound"}
MaxChunks == 1

\* np.hstack of the chunks: all-zero samples or not
Hstack(chunks) ==
    IF \A i \in DOMAIN chunks : chunks[i] = "silent"
    THEN Some("silent") ELSE Some("sound")

InitAnimate ==
    /\ mode = "animate"
    /\ tuning \in {"Equal"} /\ f_cents = 0 /\ match = NoMatch /\ fpc = "idle"
    /\ apc = "call"
    /\ stream = FALSE
    /\ callback_output = <<>>
    /\ rc = None
    /\ record_seconds = InitRecord
    /\ fmax = InitFmax
    /\ amp = None
    /\ loc = FreshLocals
    /\ shown = Unbound
    /\ raised = None
    /\ ret = None
    /\ IdlePeak /\ IdleRun /\ IdleSearch

Others == <<mode, findVars, peakVars, runVars, searchVars>>

\* main: a.animate is called; _firstplot = True; plt.ion();
\* stream.start_stream()
AnimateStart ==
    /\ mode = "animate" /\ apc = "call"
    /\ stream' = TRUE
    /\ loc' = FreshLocals
    /\ apc' = "loop"
    /\ UNCHANGED <<callback_output, rc, record_seconds, fmax, amp, shown,
                   raised, ret>>
    /\ UNCHANGED Others

\* while self.stream.is_active(): ... ; after the loop: return self.rc
LoopTest ==
    /\ mode = "animate" /\ apc = "loop"
    /\ IF stream
       THEN /\ apc' = "sleep"
            /\ ret' = ret
            /\ loc' = [loc EXCEPT !.xlim = None, !.text_x = None]
       ELSE /\ apc' = "main"
            /\ ret' = rc
            /\ loc' = loc
    /\ UNCHANGED <<stream, callback_output, rc, record_seconds, fmax, amp,
                   shown, raised>>
    /\ UNCHANGED Others

\* main: while a.animate == 'x': plt.close('all')
MainLoop ==
    /\ mode = "animate" /\ apc = "main"
    /\ apc' = IF ret = Some("x") THEN "call" ELSE "exit"
    /\ UNCHANGED <<stream, callback_output, rc, record_seconds, fmax, amp,
                   loc, shown, raised, ret>>
    /\ UNCHANGED Others

\* the stream's callback thread: self.callback_output.append(audio_data)
Callback ==
    /\ mode = "animate" /\ stream
    /\ apc \notin {"call", "main", "exit", "raised"}
    /\ Len(callback_output) < MaxChunks
    /\ \E c \in ChunkKinds : callback_output' = Append(callback_output, c)
    /\ UNCHANGED <<apc, stream, rc, record_seconds, fmax, amp, loc, shown,
                   raised, ret>>
    /\ UNCHANGED Others

\* time.sleep(record_seconds); stream.stop_stream(); amp = np.hstack(...);
\* callback_output = [].  While the stream runs for a positive time at
\* least one chunk arrives; np.hstack([]) raises ValueError.
Record_keep ==
    /\ mode = "animate" /\ apc = "sleep"
    /\ callback_output # <<>> \/ record_seconds = 0 \/ ~stream
    /\ stream' = stream
    /\ IF callback_output = <<>>
       THEN /\ raised' = Some("ValueError")
            /\ amp' = Some("empty")
            /\ apc' = "raised"
            /\ callback_output' = callback_output
       ELSE /\ amp' = Hstack(callback_output)
            /\ callback_output' = <<>>
            /\ apc' = "hotkey"
            /\ raised' = raised
    /\ UNCHANGED <<rc, record_seconds, fmax, loc, shown, ret>>
    /\ UNCHANGED Others
Record ==
    /\ mode = "animate" /\ apc = "sleep"
    /\ callback_output # <<>> \/ record_seconds = 0 \/ ~stream
    /\ stream' = FALSE
    /\ IF callback_output = <<>>
       THEN /\ raised' = Some("ValueError")
            /\ amp' = Some("empty")
            /\ apc' = "raised"
            /\ callback_output' = callback_output
       ELSE /\ amp' = Hstack(callback_output)
            /\ callback_output' = <<>>
            /\ apc' = "hotkey"
            /\ raised' = raised
    /\ UNCHANGED <<rc, record_seconds, fmax, loc, shown, ret>>
    /\ UNCHANGED Others

\* if self.rc == 'x': keyboard.wait('esc') ... elif self.rc == 'y':
\* return 'y'
HotkeyCheck ==
    /\ mode = "animate" /\ apc = "hotkey"
    /\ IF rc = Some("x") THEN apc' = "wait_esc" /\ ret' = ret
       ELSE IF rc = Some("y") THEN apc' = "main" /\ ret' = Some("y")
       ELSE apc' = "fft" /\ ret' = ret
    /\ UNCHANGED <<stream, callback_output, rc, record_seconds, fmax, amp,
                   loc, shown, raised>>
    /\ UNCHANGED Others

\* keyboard.wait('esc') returns; self.rc = None; return 'x'
EscPressed_keep ==
    /\ mode = "animate" /\ apc = "wait_esc"
    /\ rc' = rc
    /\ ret' = Some("x")
    /\ apc' = "main"
    /\ UNCHANGED <<stream, callback_output, record_seconds, fmax, amp, loc,
                   shown, raised>>
    /\ UNCHANGED Others
EscPressed ==
    /\ mode = "animate" /\ apc = "wait_esc"
    /\ rc' = None
    /\ ret' = Some("x")
    /\ apc' = "main"
    /\ UNCHANGED <<stream, callback_output, record_seconds, fmax, amp, loc,
                   shown, raised>>
    /\ UNCHANGED Others

\* threaded_opt(ind, amp, freq).run(): the fundamental of the best fit, or
\* no result when there is no peak to start from
best_x(peakList) ==
    IF peakList = <<>> THEN {None} ELSE {Some(f) : f \in AnimPitches}

\* t1, yfft = self.fft(...); peakPos, peakHeight = self.peak(...);
\* peakList = t1[peakPos]; f_measured = self.harmonics(...), which
\* subscripts opt.best_x
Analyse ==
    /\ mode = "animate" /\ apc = "fft"
    /\ \E sp \in fft(amp) : \E bx \in best_x(peak(sp, NMAX).pos) :
          IF bx = None
          THEN /\ raised' = Some("TypeError")
               /\ apc' = "raised"
               /\ loc' = [loc EXCEPT !.peakList = peak(sp, NMAX).pos]
          ELSE /\ loc' = [loc EXCEPT !.peakList = peak(sp, NMAX).pos,
                                     !.f_measured = bx]
               /\ apc' = "match"
               /\ raised' = raised
    /\ UNCHANGED <<stream, callback_output, rc, record_seconds, fmax, amp,
                   shown, ret>>
    /\ UNCHANGED Others

\* if f_measured[0]: tone, displaced = self.find(...); if tone: text and
\* colour are set; else: displayed_text = " ", color = 'none'
Match ==
    /\ mode = "animate" /\ apc = "match"
    /\ IF Truthy(loc.f_measured[1])
       THEN LET m == find(tuning, loc.f_measured[1])
            IN  loc' = [loc EXCEPT
                          !.tone = m.tone,
                          !.displaced = m.displaced,
                          !.text = IF m.tone # None
                                   THEN KeyText(m.tone, m.displaced)
                                   ELSE loc.text]
       ELSE loc' = [loc EXCEPT !.text = Blank]
    /\ apc' = "plot"
    /\ UNCHANGED <<stream, callback_output, rc, record_seconds, fmax, amp,
                   shown, raised, ret>>
    /\ UNCHANGED Others

\* if _firstplot: text = ax1.text(self.fmax, ...); ... ;
\* ax1.set_xlim([0., self.fmax])
Plot ==
    /\ mode = "animate" /\ apc = "plot"
    /\ loc' = [loc EXCEPT
                 !.text_x = IF loc.firstplot THEN Some(fmax) ELSE None,
                 !.xlim = Some(fmax)]
    /\ apc' = "text"
    /\ UNCHANGED <<stream, callback_output, rc, record_seconds, fmax, amp,
                   shown, raised, ret>>
    /\ UNCHANGED Others

\* text.set_text(displayed_text); text.set_color(color);
\* text.set_x(self.fmax)
SetText ==
    /\ mode = "animate" /\ apc = "text"
    /\ IF loc.text.kind = "unbound"
       THEN /\ raised' = Some("UnboundLocalError")
            /\ apc' = "raised"
            /\ UNCHANGED <<shown, loc>>
       ELSE /\ shown' = loc.text
            /\ loc' = [loc EXCEPT !.text_x = Some(fmax)]
            /\ apc' = "restart"
            /\ raised' = raised
    /\ UNCHANGED <<stream, callback_output, rc, record_seconds, fmax, amp,
                   ret>>
    /\ UNCHANGED Others

\* the plot is drawn, _firstplot = False; self.stream.start_stream();
\* fig.canvas.flush_events()
Restart ==
    /\ mode = "animate" /\ apc = "restart"
    /\ loc' = [loc EXCEPT !.firstplot = FALSE]
    /\ stream' = TRUE
    /\ apc' = "loop"
    /\ UNCHANGED <<callback_output, rc, record_seconds, fmax, amp, shown,
                   raised, ret>>
    /\ UNCHANGED Others

Running == mode = "animate" /\ apc \notin {"exit", "raised"}

\* on_press('x') and on_press('y'): stop the stream and set rc
OnPressStop(key) ==
    /\ Running
    /\ stream' = FALSE
    /\ rc' = Some(key)
    /\ UNCHANGED <<apc, callback_output, record_seconds, fmax, amp, loc,
                   shown, raised, ret>>
    /\ UNCHANGED Others

\* on_press('k'): record_seconds += 0.1
OnPressLonger ==
    /\ Running
    /\ record_seconds < InitRecord + MaxRecordSteps
    /\ record_seconds' = record_seconds + 1
    /\ UNCHANGED <<apc, stream, callback_output, rc, fmax, amp, loc, shown,
                   raised, ret>>
    /\ UNCHANGED Others

\* on_press('j'): record_seconds -= 0.1, not below 0
OnPressShorter ==
    /\ Running
    /\ record_seconds > InitRecord - MaxRecordSteps
    /\ record_seconds' = IF record_seconds - 1 < 0 THEN 0
                         ELSE record_seconds - 1
    /\ record_seconds' # record_seconds
    /\ UNCHANGED <<apc, stream, callback_output, rc, fmax, amp, loc, shown,
                   raised, ret>>
    /\ UNCHANGED Others

\* on_press('n'): fmax -= 100, not below 500
OnPressNarrower ==
    /\ Running
    /\ fmax > InitFmax - MaxFmaxSteps
    /\ fmax' = IF fmax - 1 < FmaxLow THEN FmaxLow ELSE fmax - 1
    /\ UNCHANGED <<apc, stream, callback_output, rc, record_seconds, amp,
                   loc, shown, raised, ret>>
    /\ UNCHANGED Others

\* on_press('m'): fmax += 100, not above 10000
OnPressWider ==
    /\ Running
    /\ fmax < InitFmax + MaxFmaxSteps
    /\ fmax' = IF fmax + 1 > FmaxHigh THEN FmaxHigh ELSE fmax + 1
    /\ UNCHANGED <<apc, stream, callback_output, rc, record_seconds, amp,
                   loc, shown, raised, ret>>
    /\ UNCHANGED Others

NextAnimate ==
    \/ AnimateStart \/ LoopTest \/ MainLoop \/ Callback \/ Record
    \/ HotkeyCheck \/ EscPressed \/ Analyse \/ Match \/ Plot \/ SetText
    \/ Restart
    \/ \E key \in {"x", "y"} : OnPressStop(key)
    \/ OnPressLonger \/ OnPressShorter \/ OnPressNarrower \/ OnPressWider
SpecAnimate == InitAnimate /\ [][NextAnimate]_vars

---------------------------------------------------------------------------
(* Properties of animate *)

\* the window taken is empty or silent, or its peak list is empty
Degenerate ==
    \/ amp \in {Some("empty"), Some("silent")}
    \/ amp # None /\ apc \in {"match", "plot", "raised"} /\ loc.peakList = <<>>

\* C6: a degenerate window (empty or silent buffer, or no peak found) never
\* raises an exception: its later stages complete, and it ends with a blank
\* text, i.e. an absent MatchResult, handed to the plot.
C6_DegenerateNeverRaises ==
    (mode = "animate" /\ Degenerate) =>
        /\ raised = None
        /\ apc = "plot" => loc.text = Blank

\* the text and colour that belong to the window under analysis: blank
\* when its fundamental is absent or no key matches, else key and offset
WindowText ==
    IF loc.f_measured = None THEN Blank
    ELSE IF ~Truthy(loc.f_measured[1]) THEN Blank
    ELSE LET m == find(tuning, loc.f_measured[1])
         IN  IF m.tone = None THEN Blank ELSE KeyText(m.tone, m.displaced)

\* C11: the text and colour displayed for a window are those of that
\* window's own fundamental and match (blank when either is absent), never
\* those of an earlier window, and they are defined when they are displayed.
C11_DisplayIsThisWindows ==
    mode = "animate" =>
        /\ apc = "restart" => shown = WindowText
        /\ raised # Some("UnboundLocalError")

\* a window's samples have been taken and its analysis and plot are not
\* finished yet
Analysing ==
    mode = "animate"
    /\ apc \in {"hotkey", "wait_esc", "fft", "match", "plot", "text",
                "restart"}

\* C12: from the moment a window's samples are taken until its analysis has
\* finished the stream is stopped and the buffer stays empty; the window
\* under analysis is not replaced; and the stream is started only by the
\* call of animate or after the analysis, whatever hotkeys are pressed.
C12_CaptureBlockedDuringAnalysis ==
    /\ [](Analysing => ~stream /\ callback_output = <<>>)
    /\ [][Analysing => (amp' = amp /\ callback_output' = callback_output)]_vars
    /\ [][(mode = "animate" /\ ~stream /\ stream')
             => apc \in {"call", "restart"}]_vars

\* a hotkey was pressed while a window was being analysed, and capture is
\* still blocked
C12_Witness ==
    /\ mode = "animate" /\ apc = "match" /\ rc = Some("x")
    /\ amp = Some("sound") /\ ~stream /\ callback_output = <<>>

\* C13: once ctrl-y has been pressed the main thread never drops the
\* request: every step of main / animate keeps rc = 'y', and when animate
\* returns it returns 'y' (so that main does not call it again), also when
\* the program was paused waiting for ESC.
C13_QuitIsHonoured ==
    [][(mode = "animate" /\ rc = Some("y") /\ apc' # apc)
          => (rc' = Some("y") /\ (apc' = "main" => ret' = Some("y")))]_vars

C18_ConfigReadOncePerRound ==
    (mode = "animate" /\ apc = "restart") => loc.xlim = loc.text_x

====
